---- MODULE Spec2Model ----
(***************************************************************************)
(* A model of the currant locks: Mutex<T> (src/src/mutex.rs) and           *)
(* TryMutex<T> (src/src/try_mutex.rs).  One lock instance is modelled; its *)
(* type is fixed at construction (kind).  Threads share the lock (the      *)
(* tests share it through an Arc) and call its operations.                 *)
(*                                                                         *)
(* Atomic operations on `locked` are single steps.  The protected cell is  *)
(* an UnsafeCell: a read through a guard returns the latest write only if  *)
(* that write happens-before the read, which the Release store in drop     *)
(* and the Acquire load in the acquisition establish; otherwise the read   *)
(* is a data race and may return any value.                                *)
(*                                                                         *)
(* Beside a TryMutex a Mutex made with the same value is kept (twin) and   *)
(* put through the same try_lock calls, stores and guard drops.            *)
(***************************************************************************)
EXTENDS Integers, FiniteSets, Sequences, TLC

\* ---------------------------------------------------------------- bounds
NumThreads == 2
MaxValue == 1
MaxBackoff == 2
MaxCalls == 1

Threads == 1..NumThreads
Values == 0..MaxValue
Kinds == {"Mutex", "TryMutex"}
Unlimited == 0 - 1
NoValue == 0 - 1
NoThread == 0

VARIABLES
    kind,       \* which struct the lock is: "Mutex" or "TryMutex"
    locked,     \* the AtomicBool `locked`
    value,      \* the UnsafeCell `value`
    initial,    \* the argument of new(value)
    guards,     \* guards[t]: number of live guards of the lock owned by thread t
    pc,         \* where each thread is: "idle" (outside any call), inside a
                \* blocking loop, or "done" (terminated)
    backoff,    \* the local `backoff` of exp_backoff_lock, in milliseconds
    local,      \* the value thread t last read through its guard, NoValue if none
    synced,     \* guard owners for which the latest write to the cell happens-before
    published,  \* the store now in `locked` carries (release sequence) the latest write
    lastOp,     \* the most recent atomic operation on `locked`: the operation, its
                \* thread, the value observed, what was returned, sinceDrop before
                \* it, and the milliseconds its call had slept when it was made
    todo,       \* acquisition calls thread t may still start (Unlimited: any number)
    incs,       \* increments thread t made through a guard (counter client only)
    wins,       \* test-and-sets that observed false since the last release
    tries,      \* test-and-sets since the last release, counted up to 2
    sinceDrop,  \* a guard was destroyed and no try_lock has been called since
    written,    \* some write was made through a guard
    naps,       \* naps[t]: the sleeps, in milliseconds and in order, thread t has
                \* completed inside its current exp_backoff_lock call
    twin        \* a Mutex made by new() with the same value as a TryMutex and put
                \* through the same calls: its flag, value, guards and last result

vars == <<kind, locked, value, initial, guards, pc, backoff, local, synced,
          published, lastOp, todo, incs, wins, tries, sinceDrop, written,
          naps, twin>>

\* ------------------------------------------------------- atomics, orderings
\* AtomicBool::fetch_or / fetch_and: the new content and the value returned.
fetch_or_and(cur, val) == [prior |-> cur, new |-> (cur /\ val)]
fetch_or_xor(cur, val) == [prior |-> cur, new |-> (cur # val)]
fetch_or(cur, val) == [prior |-> cur, new |-> (cur \/ val)]

fetch_and_or(cur, val) == [prior |-> cur, new |-> (cur \/ val)]
fetch_and(cur, val) == [prior |-> cur, new |-> (cur /\ val)]

Acquires(ord) == ord \in {"Acquire", "AcqRel", "SeqCst"}
Releases(ord) == ord \in {"Release", "AcqRel", "SeqCst"}

\* The orderings the source passes.
Relaxed == "Relaxed"
lock_ordering == "Acquire"
drop_ordering_relaxed == Relaxed
drop_ordering == "Release"
TryMutex_lock_ordering == "AcqRel"
TryMutex_drop_ordering == "Release"

\* Duration::from_millis(1), the first backoff.
from_millis_1 == 1

\* The sum of a sequence of durations.
RECURSIVE Total(_)
Total(ds) == IF ds = <<>> THEN 0 ELSE Head(ds) + Total(Tail(ds))

RECURSIVE SumOver(_, _)
SumOver(f, S) == IF S = {} THEN 0
                 ELSE LET x == CHOOSE y \in S : TRUE
                      IN f[x] + SumOver(f, S \ {x})

\* The number of live guards of the lock.
Live == SumOver(guards, Threads)
Holds(t) == guards[t] > 0

\* ------------------------------------------------------------------- new
\* Mutex::new / TryMutex::new: locked = false, value = the argument.
new(k, v) ==
    /\ kind = k
    /\ locked = FALSE
    /\ value = v
    /\ initial = v
    /\ twin = [locked |-> FALSE, value |-> v, guards |-> [t \in Threads |-> 0],
               ret |-> "lock"]

Client(n) ==
    /\ guards = [t \in Threads |-> 0]
    /\ pc = [t \in Threads |-> "idle"]
    /\ backoff = [t \in Threads |-> from_millis_1]
    /\ local = [t \in Threads |-> NoValue]
    /\ synced = {}
    /\ published = TRUE
    /\ lastOp = [op |-> "new", t |-> NoThread, prior |-> FALSE, ret |-> "lock",
                 afterDrop |-> FALSE, slept |-> 0]
    /\ todo = [t \in Threads |-> n]
    /\ incs = [t \in Threads |-> 0]
    /\ wins = 0
    /\ tries = 0
    /\ sinceDrop = FALSE
    /\ written = FALSE
    /\ naps = [t \in Threads |-> <<>>]

Init == /\ \E k \in Kinds, v \in Values : new(k, v)
        /\ Client(Unlimited)

\* ----------------------------------------------------------- acquisition
\* May thread t start a call (it is outside any call and has calls left)?
CanCall(t) == pc[t] = "idle" /\ todo[t] # 0
Called(t) == IF pc[t] = "idle" /\ todo[t] > 0
             THEN [todo EXCEPT ![t] = @ - 1] ELSE todo

\* What an attempt returns, from the value its fetch_or observed.
\* The blocking loops: `if ... == false { return MutexGuard { lock: self } }`.
loop_ret_swapped(prior) == IF prior = FALSE THEN "retry" ELSE "Guard"
loop_ret(prior) == IF prior = FALSE THEN "Guard" ELSE "retry"

\* Mutex::try_lock: Some(MutexGuard { lock: self }) or None.
try_lock_ret_swapped(prior) == IF prior = FALSE THEN "None" ELSE "Some"
try_lock_ret_retry(prior) == IF prior = FALSE THEN "Some" ELSE "retry"
try_lock_ret(prior) == IF prior = FALSE THEN "Some" ELSE "None"

\* TryMutex::try_lock: Some(TryMutexGuard { lock: self }) or None.
TryMutex_try_lock_ret_always(prior) == "Some"
TryMutex_try_lock_ret(prior) == IF prior = FALSE THEN "Some" ELSE "None"

GivesGuard(ret) == ret \in {"Guard", "Some"}

\* One `self.locked.fetch_or(true, ord)` by thread t inside operation op,
\* which returns ret to its caller ("retry": the loop goes on, t moves to
\* whenTaken).  bo is the backoff of t during the attempt.
TestAndSet(t, op, ord, ret, whenTaken, bo) ==
    LET r == fetch_or(locked, TRUE)
    IN /\ locked' = r.new
       /\ guards' = IF GivesGuard(ret) THEN [guards EXCEPT ![t] = @ + 1] ELSE guards
       /\ pc' = [pc EXCEPT ![t] = IF ret = "retry" THEN whenTaken ELSE "idle"]
       /\ backoff' = [backoff EXCEPT ![t] = IF ret = "retry" THEN bo ELSE from_millis_1]
       /\ synced' = IF GivesGuard(ret)
                    THEN IF Acquires(ord) /\ published
                         THEN synced \cup {t} ELSE synced \ {t}
                    ELSE synced
       /\ lastOp' = [op |-> op, t |-> t, prior |-> r.prior, ret |-> ret,
                     afterDrop |-> sinceDrop, slept |-> Total(naps[t])]
       /\ todo' = Called(t)
       /\ wins' = IF r.prior = FALSE THEN wins + 1 ELSE wins
       /\ tries' = IF tries < 2 THEN tries + 1 ELSE tries
       /\ sinceDrop' = IF op = "try_lock" THEN FALSE ELSE sinceDrop
       /\ naps' = [naps EXCEPT ![t] = IF ret = "retry" THEN @ ELSE <<>>]
       /\ UNCHANGED <<kind, value, initial, local, published, incs, written>>

\* The value the next fetch_or on `locked` observes.
Observed == fetch_or(locked, TRUE).prior

\* Mutex::spin_lock: one iteration of the loop (the first one is the call).
spin_lock(t) ==
    /\ kind = "Mutex"
    /\ CanCall(t) \/ pc[t] = "spin_lock"
    /\ TestAndSet(t, "spin_lock", lock_ordering, loop_ret(Observed),
                  "spin_lock", backoff[t])
    /\ UNCHANGED twin

\* Mutex::yield_lock: one fetch_or; a failed one goes on to yield_now().
yield_lock(t) ==
    /\ kind = "Mutex"
    /\ CanCall(t) \/ pc[t] = "yield_lock"
    /\ TestAndSet(t, "yield_lock", lock_ordering, loop_ret(Observed),
                  "yield_now", backoff[t])
    /\ UNCHANGED twin

\* std::thread::yield_now() returns and the loop goes round.
yield_now(t) ==
    /\ pc[t] = "yield_now"
    /\ pc' = [pc EXCEPT ![t] = "yield_lock"]
    /\ UNCHANGED <<kind, locked, value, initial, guards, backoff, local, synced,
                   published, lastOp, todo, incs, wins, tries, sinceDrop, written,
                   naps, twin>>

\* Mutex::exp_backoff_lock: one fetch_or; the call sets backoff to 1 ms, a
\* failed attempt goes on to sleep(backoff).  Sleeps longer than MaxBackoff
\* are outside the model.
exp_backoff_lock(t) ==
    /\ kind = "Mutex"
    /\ CanCall(t) \/ pc[t] = "exp_backoff_lock"
    /\ LET bo == IF pc[t] = "idle" THEN from_millis_1 ELSE backoff[t]
       IN /\ loop_ret(Observed) = "retry" => bo <= MaxBackoff
          /\ TestAndSet(t, "exp_backoff_lock", lock_ordering, loop_ret(Observed),
                        "sleep", bo)
    /\ UNCHANGED twin

\* `backoff *= 2` on a Duration.
double_not(d) == d
double(d) == d * 2

\* A sleep that never ends.
sleep_on(t) == pc[t] = "sleep" /\ UNCHANGED vars

\* std::thread::sleep(backoff) returns, after backoff milliseconds;
\* backoff *= 2.
sleep(t) ==
    /\ pc[t] = "sleep"
    /\ pc' = [pc EXCEPT ![t] = "exp_backoff_lock"]
    /\ naps' = [naps EXCEPT ![t] = Append(@, backoff[t])]
    /\ backoff' = [backoff EXCEPT ![t] = double(@)]
    /\ UNCHANGED <<kind, locked, value, initial, guards, local, synced,
                   published, lastOp, todo, incs, wins, tries, sinceDrop, written,
                   twin>>

\* Mutex::try_lock: a single fetch_or, Some(guard) or None.
try_lock(t) ==
    /\ kind = "Mutex"
    /\ CanCall(t)
    /\ TestAndSet(t, "try_lock", lock_ordering, try_lock_ret(Observed),
                  "idle", backoff[t])
    /\ UNCHANGED twin

\* The same calls made on the twin Mutex m by thread t (mutex.rs): try_lock,
\* the drop of a guard of m, and a store through a guard of m.
Mutex_try_lock(m, t) ==
    LET r == fetch_or(m.locked, TRUE)
        ret == try_lock_ret(r.prior)
    IN [m EXCEPT !.locked = r.new,
                 !.guards[t] = IF GivesGuard(ret) THEN @ + 1 ELSE @,
                 !.ret = ret]
MutexGuard_drop(m, t) ==
    IF m.guards[t] > 0
    THEN [m EXCEPT !.locked = fetch_and(m.locked, FALSE).new,
                   !.guards[t] = @ - 1]
    ELSE m
MutexGuard_store(m, t, v) ==
    IF m.guards[t] > 0 THEN [m EXCEPT !.value = v] ELSE m

\* TryMutex::try_lock.
TryMutex_try_lock(t) ==
    /\ kind = "TryMutex"
    /\ CanCall(t)
    /\ TestAndSet(t, "try_lock", TryMutex_lock_ordering,
                  TryMutex_try_lock_ret(Observed), "idle", backoff[t])
    /\ twin' = Mutex_try_lock(twin, t)

\* ---------------------------------------------------------------- guards
\* Thread t is in its critical section: it owns a guard and is in no call.
InCritical(t) == Holds(t) /\ pc[t] = "idle"

\* Drop of a guard owned by t: `self.lock.locked.fetch_and(false, ord)`.
\* path is how the guard's scope ended: "scope" (return or early exit, the
\* thread goes on) or "unwind" (a panic in the critical section unwinds the
\* thread, which runs the destructor and ends).
GuardDrop(t, ord, path) ==
    LET r == fetch_and(locked, FALSE)
    IN /\ InCritical(t)
       /\ locked' = r.new
       /\ guards' = [guards EXCEPT ![t] = @ - 1]
       /\ pc' = [pc EXCEPT ![t] = IF path = "unwind" THEN "done" ELSE "idle"]
       /\ local' = [local EXCEPT ![t] = NoValue]
       /\ synced' = IF guards[t] = 1 THEN synced \ {t} ELSE synced
       /\ published' = (published \/ (Releases(ord) /\ t \in synced))
       /\ lastOp' = [op |-> "drop", t |-> t, prior |-> r.prior, ret |-> path,
                     afterDrop |-> sinceDrop, slept |-> 0]
       /\ wins' = 0
       /\ tries' = 0
       /\ sinceDrop' = TRUE
       /\ UNCHANGED <<kind, value, initial, backoff, todo, incs, written, naps>>

\* impl Drop for MutexGuard.
drop(t, path) ==
    kind = "Mutex" /\ GuardDrop(t, drop_ordering, path) /\ UNCHANGED twin

\* impl Drop for TryMutexGuard.
TryMutexGuard_drop(t, path) ==
    /\ kind = "TryMutex" /\ GuardDrop(t, TryMutex_drop_ordering, path)
    /\ twin' = MutexGuard_drop(twin, t)

\* The values a read of the cell by t may return: the latest write when it
\* happens-before the read (or nothing was ever written); otherwise the read
\* races with a write and may return anything.
Readable(t) == IF t \in synced \/ ~written THEN {value} ELSE Values

\* Deref::deref of either guard: read the cell.
deref(t) ==
    /\ InCritical(t)
    /\ \E v \in Readable(t) : local' = [local EXCEPT ![t] = v]
    /\ UNCHANGED <<kind, locked, value, initial, guards, pc, backoff, synced,
                   published, lastOp, todo, incs, wins, tries, sinceDrop, written,
                   naps, twin>>

\* A store of v through the `&mut T` that deref_mut hands out.
Store(t, v) ==
    /\ InCritical(t)
    /\ value' = v
    /\ synced' = {t}
    /\ published' = FALSE
    /\ written' = TRUE
    /\ twin' = IF kind = "TryMutex" THEN MutexGuard_store(twin, t, v) ELSE twin
    /\ UNCHANGED <<kind, locked, initial, guards, pc, backoff, local,
                   lastOp, todo, wins, tries, sinceDrop, naps>>

\* DerefMut::deref_mut of either guard followed by a store of v.
deref_mut(t, v) == Store(t, v) /\ UNCHANGED incs

\* ------------------------------------------------------------------ Next
Paths == {"scope", "unwind"}

Next ==
    \E t \in Threads :
        \/ spin_lock(t)
        \/ yield_lock(t)
        \/ yield_now(t)
        \/ exp_backoff_lock(t)
        \/ sleep(t)
        \/ try_lock(t)
        \/ TryMutex_try_lock(t)
        \/ \E p \in Paths : drop(t, p)
        \/ \E p \in Paths : TryMutexGuard_drop(t, p)
        \/ deref(t)
        \/ \E v \in Values : deref_mut(t, v)

Spec == Init /\ [][Next]_vars

\* -------------------------------------------------------- counter client
\* Every thread makes one acquisition call, by any operation, and, if it got
\* a guard, reads the cell and writes back what it read plus one
\* (`*g += 1`: a deref followed by a deref_mut and a store).
increment(t) ==
    /\ local[t] # NoValue
    /\ incs[t] = 0
    /\ Store(t, local[t] + 1)
    /\ incs' = [incs EXCEPT ![t] = 1]

CounterInit ==
    /\ \E k \in Kinds, v \in Values : new(k, v)
    /\ Client(1)

CounterNext ==
    \E t \in Threads :
        \/ spin_lock(t)
        \/ yield_lock(t)
        \/ yield_now(t)
        \/ exp_backoff_lock(t)
        \/ sleep(t)
        \/ try_lock(t)
        \/ TryMutex_try_lock(t)
        \/ \E p \in Paths : drop(t, p)
        \/ \E p \in Paths : TryMutexGuard_drop(t, p)
        \/ deref(t)
        \/ increment(t)

CounterSpec == CounterInit /\ [][CounterNext]_vars

\* ------------------------------------------------------------ properties
Blocking == {"spin_lock", "yield_lock", "yield_now", "exp_backoff_lock", "sleep"}
Waiting(t) == pc[t] \in Blocking

\* A step that is a try_lock call of t, on either lock.
TryLockStep(t) == try_lock(t) \/ TryMutex_try_lock(t)
\* A step that destroys a guard of t, on either lock.
DropStep(t) == \E p \in Paths : drop(t, p) \/ TryMutexGuard_drop(t, p)

\* C1: mutual exclusion.  In every reachable state at most one guard of the
\* lock is live, so at most one thread is inside its critical section.
MutualExclusion ==
    /\ Live <= 1
    /\ Cardinality({t \in Threads : InCritical(t)}) <= 1

\* A guard is live while another thread, having lost a test-and-set, waits.
MutualExclusionWitness ==
    \E t, u \in Threads :
        /\ t # u /\ Holds(t) /\ Waiting(u)
        /\ lastOp.t = u /\ lastOp.prior = TRUE

\* C2: invariant I3.  The flag is 1 iff exactly one guard is live and 0 iff
\* no guard is live.
FlagInvariant ==
    /\ locked = TRUE <=> Live = 1
    /\ locked = FALSE <=> Live = 0

\* The lock has been released and taken again.
FlagInvariantWitness == locked /\ Live = 1 /\ sinceDrop

\* C3: try-probe correctness.  A try_lock whose test-and-set runs while a
\* guard is live returns None and creates no guard; one that runs while no
\* guard is live returns Some(guard), and the caller then holds the lock.
TryProbeCorrect ==
    [][\A t \in Threads :
          TryLockStep(t) =>
              IF Live > 0
              THEN lastOp'.ret = "None" /\ guards' = guards
              ELSE lastOp'.ret = "Some" /\ guards'[t] = 1 /\ locked']_vars

\* A probe has just failed against a live guard of another thread.
TryProbeWitness ==
    /\ lastOp.op = "try_lock" /\ lastOp.ret = "None"
    /\ \E u \in Threads : u # lastOp.t /\ Holds(u)

\* C4: destroying a guard releases the lock.  Whatever path ends the guard's
\* scope, the step that destroys the live guard leaves the flag 0 and no
\* guard live.
DropReleases ==
    [][\A t \in Threads : DropStep(t) => (locked' = FALSE /\ Live' = 0)]_vars

\* A guard has just been destroyed by an unwinding thread.
DropReleasesWitness ==
    /\ lastOp.op = "drop" /\ lastOp.ret = "unwind"
    /\ locked = FALSE /\ pc[lastOp.t] = "done"

\* C5 as stated: once a guard has been destroyed, the next try_lock call on
\* the lock, from any thread, returns a guard.
NextTryLockSucceeds ==
    [][\A t \in Threads :
          (sinceDrop /\ TryLockStep(t)) => lastOp'.ret = "Some"]_vars

\* C5 as amended: once a guard has been destroyed, the next try_lock call
\* returns a guard provided no test-and-set of another acquisition has
\* observed the flag clear since the destruction.
NextTryLockSucceedsIfNotTaken ==
    [][\A t \in Threads :
          (sinceDrop /\ wins = 0 /\ TryLockStep(t)) =>
              (lastOp'.ret = "Some" /\ guards'[t] = 1)]_vars

\* The first try_lock after a destruction has returned a guard although a
\* blocking attempt of another thread failed in between.
NextTryLockWitness ==
    /\ lastOp.op = "try_lock" /\ lastOp.ret = "Some"
    /\ lastOp.afterDrop
    /\ \E u \in Threads : u # lastOp.t /\ Waiting(u)

\* ------------------------------------------------------------- fairness
\* A step of thread t inside a blocking call: the next loop iteration, the
\* return of yield_now or the end of a sleep.  The scheduler runs every
\* thread, so such a step is not postponed forever.
LoopStep(t) ==
    /\ Waiting(t)
    /\ spin_lock(t) \/ yield_lock(t) \/ yield_now(t) \/ exp_backoff_lock(t) \/ sleep(t)

\* The threads run programs of any length, or of at most MaxCalls
\* acquisition calls each.  Reads and writes of the cell do not touch the
\* flag: here the threads only acquire, wait and release, and the lock is
\* made by new(0) as in the tests.
FairInit ==
    /\ \E k \in Kinds : new(k, 0)
    /\ Client(Unlimited) \/ Client(MaxCalls)

FairNext ==
    \E t \in Threads :
        \/ spin_lock(t)
        \/ yield_lock(t)
        \/ yield_now(t)
        \/ exp_backoff_lock(t)
        \/ sleep(t)
        \/ try_lock(t)
        \/ TryMutex_try_lock(t)
        \/ \E p \in Paths : drop(t, p)
        \/ \E p \in Paths : TryMutexGuard_drop(t, p)

FairSpec ==
    /\ FairInit
    /\ [][FairNext]_vars
    /\ \A t \in Threads : WF_vars(LoopStep(t))

\* Every thread that obtains a guard eventually drops it.
GuardsDropped == \A u \in Threads : []<>(~Holds(u))
\* Every thread makes finitely many acquisition calls.
FinitePrograms == \A u \in Threads : todo[u] # Unlimited

Increments == SumOver(incs, Threads)
NoLostUpdates ==
    /\ \A t \in Threads :
           (InCritical(t) /\ local[t] # NoValue /\ incs[t] = 0)
               => local[t] = initial + Increments
    /\ Live = 0 => value = initial + Increments
    /\ (Live = 0 /\ \A t \in Threads : incs[t] = 1) => value = initial + NumThreads

\* All threads have acquired once, each by a blocking call or a probe,
\* and incremented.
NoLostUpdatesWitness ==
    /\ \A t \in Threads : incs[t] = 1 /\ ~Holds(t)
    /\ value = initial + NumThreads
    /\ lastOp.op = "drop"

\* C8: invariant I1 as a frame property.  The protected value changes only in
\* a store made through the only live guard by the thread that owns it;
\* acquisitions, failed attempts and guard destruction leave it unchanged, and
\* a lock that was never written through a guard shows the value given to
\* new() to every holder that reads it.
ValueFrame ==
    /\ [][value' # value =>
            \E t \in Threads :
                /\ guards[t] = 1 /\ Live = 1
                /\ \E v \in Values : deref_mut(t, v)]_vars
    /\ [][value' # value =>
            \A t \in Threads :
                ~(TryLockStep(t) \/ DropStep(t) \/ spin_lock(t) \/ yield_lock(t)
                    \/ exp_backoff_lock(t) \/ yield_now(t) \/ sleep(t))]_vars
    /\ [](~written => /\ value = initial
                      /\ \A t \in Threads : local[t] \in {NoValue, initial})

\* A second holder, after the first one's guard is gone, has read the value
\* given to new() from a lock that was never written.
ValueFrameWitness ==
    /\ ~written /\ lastOp.afterDrop /\ GivesGuard(lastOp.ret)
    /\ InCritical(lastOp.t) /\ local[lastOp.t] = initial

\* C9: single winner of a race.  Of the test-and-sets made since the flag was
\* last 0 (since new() or the last release) exactly one has observed 0 and
\* given its thread the guard; every other one observes 1, creates no guard
\* and either retries (blocking loops) or returns None (try_lock).
AcquireStep(t) ==
    TryLockStep(t) \/ spin_lock(t) \/ yield_lock(t) \/ exp_backoff_lock(t)
SingleWinner ==
    /\ [](tries >= 1 => (wins = 1 /\ Live = 1))
    /\ [][\A t \in Threads :
            (tries >= 1 /\ AcquireStep(t)) =>
                /\ lastOp'.prior = TRUE
                /\ guards' = guards
                /\ \/ lastOp'.ret = "retry" /\ pc'[t] \in Blocking
                   \/ lastOp'.ret = "None" /\ pc'[t] = "idle"]_vars

\* Two threads have raced: one holds the guard, the other has just observed 1.
SingleWinnerWitness ==
    /\ tries = 2 /\ wins = 1 /\ lastOp.prior = TRUE
    /\ \E t \in Threads : t # lastOp.t /\ Holds(t) /\ ~Holds(lastOp.t)

\* C10: release happens only by guard destruction.  Every step that changes
\* the flag from 1 to 0 is the destruction of the lock's only live guard; no
\* acquisition, successful or failed, and no read or write through the guard
\* clears the flag.
OnlyDropReleases ==
    /\ [][(locked = TRUE /\ locked' = FALSE) =>
            \E t \in Threads : DropStep(t) /\ guards[t] = 1 /\ Live = 1]_vars
    /\ [][locked' = FALSE =>
            \A t \in Threads :
                ~(AcquireStep(t) \/ deref(t) \/ (\E v \in Values : deref_mut(t, v)))]_vars

\* The guard is destroyed, and the flag cleared, while another thread that
\* has failed attempts behind it is still waiting.
OnlyDropReleasesWitness ==
    /\ lastOp.op = "drop" /\ lastOp.ret = "scope" /\ locked = FALSE
    /\ \E u \in Threads : u # lastOp.t /\ Waiting(u)

\* C11: try_lock never blocks and never loops.  A thread outside any call can
\* always make the call, whatever the flag holds; the call is one
\* test-and-set, after which the thread is outside any call again with
\* Some(guard) or None in hand, never inside a loop.
TryLockNeverBlocks ==
    /\ [](\A t \in Threads : CanCall(t) => ENABLED TryLockStep(t))
    /\ [][\A t \in Threads :
            TryLockStep(t) =>
                /\ pc[t] = "idle" /\ pc'[t] = "idle"
                /\ lastOp'.op = "try_lock" /\ lastOp'.t = t
                /\ lastOp'.ret \in {"Some", "None"}
                /\ lastOp'.ret = "None" <=> locked
                /\ tries < 2 => tries' = tries + 1]_vars

\* The holder of the guard has itself probed the lock it holds: the call came
\* back with None and the thread is in no call.
TryLockNeverBlocksWitness ==
    /\ lastOp.op = "try_lock" /\ lastOp.ret = "None" /\ tries = 2
    /\ InCritical(lastOp.t) /\ ~lastOp.afterDrop

\* C12: no reentrancy.  A thread that calls spin_lock, yield_lock or
\* exp_backoff_lock while it holds the guard of the same lock observes 1 in
\* that test-and-set and in every later one: from then on, in every step,
\* the thread is still inside the call and still owns the guard, the flag is
\* still 1 and no guard is destroyed.
BlockingCall(t) == spin_lock(t) \/ yield_lock(t) \/ exp_backoff_lock(t)
NoReentrancy ==
    /\ [][\A t \in Threads :
            (Holds(t) /\ BlockingCall(t)) =>
                (lastOp'.prior = TRUE /\ lastOp'.ret = "retry" /\ Waiting(t)')]_vars
    /\ [][\A t \in Threads :
            (Holds(t) /\ Waiting(t)) =>
                (Holds(t)' /\ Waiting(t)' /\ locked' /\ guards' = guards)]_vars

\* The holder of the guard is inside yield_lock on the same lock: its
\* test-and-set has observed 1 and the thread has gone on to yield.
NoReentrancyWitness ==
    \E t \in Threads :
        /\ Holds(t) /\ pc[t] = "yield_now" /\ tries = 2
        /\ lastOp.op = "yield_lock" /\ lastOp.t = t /\ lastOp.prior = TRUE

\* A thread has terminated abnormally: a panic inside its critical section
\* has unwound it.
Terminated(t) == pc[t] = "done"

\* C13 as stated: if a thread terminates abnormally while holding a guard,
\* the flag is never cleared afterwards, and from then on every try_lock
\* returns None and no blocking call returns.
PermanentlyHeld ==
    /\ []((\E u \in Threads : Terminated(u)) => locked)
    /\ [][\A t \in Threads :
            ((\E u \in Threads : Terminated(u)) /\ AcquireStep(t)) =>
                ~GivesGuard(lastOp'.ret)]_vars

\* C13 as amended: no poisoning.  The step in which a thread holding a
\* guard terminates abnormally destroys the guard and clears the flag, and
\* the lock keeps no trace of it: afterwards a try_lock returns Some(guard)
\* exactly when no guard is live, and a test-and-set of a blocking call
\* returns the guard exactly when the flag is 0, as on a lock no thread has
\* died on.
NoPoisoning ==
    /\ [][\A t \in Threads :
            (~Terminated(t) /\ Terminated(t)') =>
                (Holds(t) /\ DropStep(t) /\ locked' = FALSE /\ Live' = 0)]_vars
    /\ [][\A t \in Threads :
            ((\E u \in Threads : Terminated(u)) /\ AcquireStep(t)) =>
                /\ GivesGuard(lastOp'.ret) <=> (Live = 0)
                /\ GivesGuard(lastOp'.ret) <=> ~locked
                /\ GivesGuard(lastOp'.ret) => (guards'[t] = 1 /\ Live' = 1)]_vars

\* A thread has died holding the guard, and a try_lock of another thread,
\* the first one after a guard destruction, has returned the guard.
NoPoisoningWitness ==
    /\ lastOp.op = "try_lock" /\ lastOp.ret = "Some" /\ lastOp.afterDrop
    /\ Holds(lastOp.t)
    /\ \E u \in Threads : u # lastOp.t /\ Terminated(u)

\* C14: no fairness among waiters.  Thread t is inside a blocking call, u
\* holds the guard and may call again for ever.
Starved(t, u) ==
    /\ t # u /\ kind = "Mutex"
    /\ Waiting(t) /\ ~Holds(t)
    /\ InCritical(u) /\ todo[u] = Unlimited
\* The same with the lock free: u has just dropped its guard.
Released(t, u) ==
    /\ t # u /\ kind = "Mutex"
    /\ Waiting(t) /\ ~Holds(t)
    /\ ~locked /\ Live = 0 /\ pc[u] = "idle" /\ todo[u] = Unlimited
\* The next loop step of t is within the sleeps the model covers.
InRange(t) == pc[t] = "exp_backoff_lock" => backoff[t] <= MaxBackoff
\* From every reachable state where t waits and u holds the lock a round
\* exists that ends in such a state again: t takes its turn (the scheduler
\* is fair to it) and stays in its call, u drops its guard, and u, by a new
\* call of any acquisition, wins the test-and-set that observes 0, however
\* many attempts t has behind it.  Repeated for ever, the rounds are an
\* execution fair to every thread, with every guard dropped, in which the
\* call of t never returns.
NoFairness ==
    \A t, u \in Threads :
        /\ (Starved(t, u) /\ InRange(t)) => ENABLED (LoopStep(t) /\ Starved(t, u)')
        /\ Starved(t, u) => ENABLED (drop(u, "scope") /\ Released(t, u)')
        /\ Released(t, u) =>
               /\ ENABLED (spin_lock(u) /\ Starved(t, u)')
               /\ ENABLED (yield_lock(u) /\ Starved(t, u)')
               /\ ENABLED (exp_backoff_lock(u) /\ Starved(t, u)')
               /\ ENABLED (try_lock(u) /\ Starved(t, u)')

\* A round has been made: t, one failed attempt behind it, is still in
\* yield_lock while u has dropped the guard and taken the lock again.
NoFairnessWitness ==
    \E t, u \in Threads :
        /\ Starved(t, u) /\ pc[t] = "yield_now"
        /\ lastOp.t = u /\ GivesGuard(lastOp.ret) /\ lastOp.afterDrop

\* C15: TryMutex is equivalent to Mutex restricted to try_lock.  A TryMutex
\* and a Mutex made by new() with the same value and put through the same
\* try_lock calls, stores through the guard and guard destructions have
\* equal flags, equal values and the same live guards after every step, and
\* every try_lock call returns the same on both: Some(guard) or None.
TryMutexEquivalent ==
    kind = "TryMutex" =>
        /\ twin.locked = locked
        /\ twin.value = value
        /\ twin.guards = guards
        /\ lastOp.op = "try_lock" => twin.ret = lastOp.ret
        /\ lastOp.op = "new" => twin.value = initial

\* After a store that changed the value, a try_lock on the held locks has
\* returned None on both.
TryMutexEquivalentWitness ==
    /\ kind = "TryMutex" /\ lastOp.op = "try_lock"
    /\ lastOp.ret = "None" /\ twin.ret = "None"
    /\ twin.locked /\ twin.value # initial
    /\ \E u \in Threads : u # lastOp.t /\ twin.guards[u] = 1

\* C16: the three blocking strategies are equivalent in outcome.  The lock
\* state (flag, guards, value) that an attempt of thread t leaves: it depends
\* on the flag alone, not on the strategy.
LockAfter(t) ==
    <<TRUE, IF locked THEN guards ELSE [guards EXCEPT ![t] = @ + 1], value>>
\* A test-and-set of spin_lock, yield_lock or exp_backoff_lock either ends
\* the call with a guard or keeps the thread inside the call: none of them
\* returns without a guard or with an error.  When one returns, the flag is
\* 1, the caller owns the only live guard and the value is as before; a
\* failed attempt leaves the lock state as it was.  A thread outside any
\* call can make any of the three calls, and each leads to the same lock
\* state.
StrategyEquivalent ==
    /\ [][\A t \in Threads :
            BlockingCall(t) =>
                /\ <<locked', guards', value'>> = LockAfter(t)
                /\ lastOp'.ret \in {"Guard", "retry"}
                /\ lastOp'.ret = "Guard" <=> pc'[t] = "idle"
                /\ lastOp'.ret = "retry" <=> Waiting(t)'
                /\ lastOp'.ret = "Guard" =>
                       (locked' /\ guards'[t] = 1 /\ Live' = 1 /\ value' = value)
                /\ lastOp'.ret = "retry" =>
                       (locked' = locked /\ guards' = guards)]_vars
    /\ [](\A t \in Threads :
            (kind = "Mutex" /\ CanCall(t)) =>
                /\ ENABLED (spin_lock(t) /\ <<locked', guards', value'>> = LockAfter(t))
                /\ ENABLED (yield_lock(t) /\ <<locked', guards', value'>> = LockAfter(t))
                /\ ENABLED (exp_backoff_lock(t)
                               /\ <<locked', guards', value'>> = LockAfter(t)))

\* An exp_backoff_lock call has returned the guard of a lock that was
\* written and released before, while another thread is inside yield_lock.
StrategyEquivalentWitness ==
    /\ lastOp.op = "exp_backoff_lock" /\ lastOp.ret = "Guard"
    /\ lastOp.afterDrop /\ written /\ InCritical(lastOp.t)
    /\ \E u \in Threads : pc[u] = "yield_now"

\* C17: the exponential backoff schedule.
RECURSIVE Pow2(_)
Pow2(k) == IF k = 0 THEN 1 ELSE 2 * Pow2(k - 1)
InBackoff(t) == pc[t] \in {"sleep", "exp_backoff_lock"}
\* Within one exp_backoff_lock call the k-th sleep, the one after the k-th
\* failed attempt, lasts 2^(k-1) milliseconds: 1, 2, 4, ...; the first
\* test-and-set of a call is made with no sleep behind it, every failed
\* attempt is followed by a sleep, every sleep doubles the duration, and a
\* new call starts at 1 millisecond whatever the calls before it reached.
BackoffSchedule ==
    /\ [](\A t \in Threads :
            /\ \A k \in 1..Len(naps[t]) : naps[t][k] = Pow2(k - 1)
            /\ InBackoff(t) => backoff[t] = Pow2(Len(naps[t]))
            /\ pc[t] = "exp_backoff_lock" => Len(naps[t]) >= 1
            /\ ~InBackoff(t) => naps[t] = <<>>)
    /\ [][\A t \in Threads :
            exp_backoff_lock(t) =>
                /\ pc[t] = "idle" => naps[t] = <<>>
                /\ lastOp'.ret = "retry" =>
                       /\ pc'[t] = "sleep" /\ naps'[t] = naps[t]
                       /\ pc[t] = "idle" => backoff'[t] = 1
                       /\ pc[t] # "idle" => backoff'[t] = backoff[t]]_vars
    /\ [][\A t \in Threads :
            (pc[t] = "sleep" /\ pc'[t] # "sleep") =>
                /\ backoff'[t] = 2 * backoff[t]
                /\ naps'[t] = Append(naps[t], backoff[t])
                /\ pc'[t] = "exp_backoff_lock"]_vars

\* A call has slept 1 and then 2 milliseconds and is about to try again,
\* with 4 milliseconds as its next sleep.
BackoffScheduleWitness ==
    \E t \in Threads :
        /\ pc[t] = "exp_backoff_lock" /\ naps[t] = <<1, 2>> /\ backoff[t] = 4
        /\ lastOp.op = "exp_backoff_lock" /\ lastOp.t = t /\ lastOp.ret = "retry"

\* C18: the lower bound of the backoff.  An exp_backoff_lock call whose
\* first test-and-set observes the lock held does not return at that
\* attempt; every later attempt of the call, and so the one that returns the
\* guard, is made with at least 1 millisecond of sleep behind it.
BackoffLowerBound ==
    /\ [][\A t \in Threads :
            exp_backoff_lock(t) =>
                /\ (pc[t] = "idle" /\ locked) => (pc'[t] = "sleep" /\ guards' = guards)
                /\ pc[t] # "idle" => lastOp'.slept >= 1]_vars
    /\ [](\A t \in Threads : pc[t] = "exp_backoff_lock" => Total(naps[t]) >= 1)

\* Two threads have called exp_backoff_lock: the one that found the lock
\* held has returned with the guard after sleeping 1 + 2 milliseconds.
BackoffLowerBoundWitness ==
    /\ lastOp.op = "exp_backoff_lock" /\ lastOp.ret = "Guard"
    /\ lastOp.slept = 3 /\ lastOp.afterDrop
    /\ InCritical(lastOp.t) /\ naps[lastOp.t] = <<>>

\* C19: lock-level progress.  Under fair scheduling, whenever the flag is 0
\* while some thread is inside spin_lock, yield_lock or exp_backoff_lock,
\* some thread eventually holds the guard: the lock does not stay free for
\* ever while a waiter retries, be it yielding or asleep at the release.
LockProgress ==
    (~locked /\ \E t \in Threads : Waiting(t))
        ~> (locked /\ \E u \in Threads : Holds(u))

\* The guard has just been destroyed while the other thread, inside
\* exp_backoff_lock, is asleep in its second sleep.
LockProgressWitness ==
    /\ lastOp.op = "drop" /\ ~locked /\ Live = 0
    /\ \E t \in Threads : pc[t] = "sleep" /\ naps[t] = <<1>> /\ backoff[t] = 2

\* C20: a failed acquisition attempt has no effect.  A test-and-set that
\* observes 1, in try_lock or in an iteration of a blocking loop, writes 1
\* over 1: it leaves the flag, the value, the guards and their owner as they
\* were and gives no guard.  Hence whatever attempts have failed, the holder
\* can still destroy its guard, and doing so clears the flag.
FailedAttemptNoEffect ==
    /\ [][\A t \in Threads :
            (locked /\ AcquireStep(t)) =>
                /\ lastOp'.prior = TRUE /\ ~GivesGuard(lastOp'.ret)
                /\ locked' = locked /\ value' = value /\ guards' = guards
                /\ synced' = synced /\ published' = published
                /\ \A u \in Threads : (u # t /\ InCritical(u)) => InCritical(u)']_vars
    /\ [](\A u \in Threads :
            InCritical(u) =>
                ENABLED (DropStep(u) /\ locked' = FALSE /\ Live' = 0))

\* The holder has destroyed its guard and the flag is 0, although the other
\* thread, inside exp_backoff_lock, had failed twice against it.
FailedAttemptNoEffectWitness ==
    /\ lastOp.op = "drop" /\ lastOp.prior = TRUE /\ locked = FALSE
    /\ \E u \in Threads :
           u # lastOp.t /\ pc[u] = "exp_backoff_lock" /\ naps[u] = <<1, 2>>

====
